---- MODULE Spec2Model ----
(***************************************************************************)
(* A model of the two ingesters of this repository:                        *)
(*   bin/webdav_ingest.py       the remote (WebDAV) ingester, insert-only  *)
(*   bin/insert_data2db_win.py  the filesystem ingester, merge-write       *)
(* Texts (keys, paths, identifiers) are sequences of characters so that    *)
(* lower(), replace("_", ""), endswith() and Path.stem are computed.       *)
(***************************************************************************)
EXTENDS Integers, Sequences, FiniteSets, TLC

(***************************************************************************)
(* Texts                                                                   *)
(***************************************************************************)
UpperChars == <<"A","B","C","D","E","F","G","H","I","J","K","L","M",
                "N","O","P","Q","R","S","T","U","V","W","X","Y","Z">>
LowerChars == <<"a","b","c","d","e","f","g","h","i","j","k","l","m",
                "n","o","p","q","r","s","t","u","v","w","x","y","z">>

\* the lower-case letter of each upper-case letter
LowerOf ==
    [c \in {UpperChars[i] : i \in DOMAIN UpperChars} |->
        LowerChars[CHOOSE i \in DOMAIN UpperChars : UpperChars[i] = c]]

\* str.lower() on one character
lowerChar(c) == IF c \in DOMAIN LowerOf THEN LowerOf[c] ELSE c

\* str.lower()
lower(s) == [i \in 1..Len(s) |-> lowerChar(s[i])]

\* str.replace("_", "")
dropUnderscores(s) == SelectSeq(s, LAMBDA c : c # "_")

\* str.endswith(suffix)
endswith(s, suffix) ==
    /\ Len(suffix) <= Len(s)
    /\ SubSeq(s, Len(s) - Len(suffix) + 1, Len(s)) = suffix

\* str.rfind(c), 1-based, 0 when absent
rfind(s, c) ==
    IF \E i \in 1..Len(s) : s[i] = c
    THEN CHOOSE i \in 1..Len(s) : s[i] = c /\ \A j \in (i+1)..Len(s) : s[j] # c
    ELSE 0

\* pathlib: Path(href).stem, the last component without its last suffix
stem(href) ==
    LET name == SubSeq(href, rfind(href, "/") + 1, Len(href))
        dot  == rfind(name, ".")
    IN  IF 1 < dot /\ dot < Len(name) THEN SubSeq(name, 1, dot - 1) ELSE name

T_identifier       == <<"i","d","e","n","t","i","f","i","e","r">>
T_Identifier       == <<"I","d","e","n","t","i","f","i","e","r">>
T_IDENTIFIER       == <<"I","D","E","N","T","I","F","I","E","R">>
T_schemaid         == <<"s","c","h","e","m","a","i","d">>
T_SchemaID         == <<"S","c","h","e","m","a","I","D">>
T_Schema_ID        == <<"S","c","h","e","m","a","_","I","D">>
T_documentlocation == <<"d","o","c","u","m","e","n","t","l","o","c","a","t","i","o","n">>
T_DocumentLocation == <<"D","o","c","u","m","e","n","t","L","o","c","a","t","i","o","n">>
T_Value            == <<"V","a","l","u","e">>
T_FileTypeIdentifier ==
    <<"F","i","l","e","T","y","p","e","I","d","e","n","t","i","f","i","e","r">>
T_dotjson          == <<".","j","s","o","n">>

\* The marker text is only ever compared whole: it is kept as one chunk.
FILE_TYPE_IDENTIFIER ==
    <<"This is a EMPI-RF metadata File. Do not change this for crawler identification">>

(***************************************************************************)
(* JSON values as Python sees them: t is the type, s the text str() gives, *)
(* items the elements of an array.                                         *)
(***************************************************************************)
VStr(s)  == [t |-> "str",  s |-> s, items |-> <<>>]
VNum(s)  == [t |-> "num",  s |-> s, items |-> <<>>]
PyNone   == [t |-> "null", s |-> <<"N","o","n","e">>, items |-> <<>>]
VArr(xs) == [t |-> "arr",  s |-> <<>>, items |-> xs]

\* Python truthiness, as used by `or` and `not`
truthy(v) ==
    CASE v.t = "null" -> FALSE
      [] v.t = "str"  -> v.s # <<>>
      [] v.t = "num"  -> v.s # <<"0">>
      [] v.t = "arr"  -> v.items # <<>>
      [] OTHER        -> TRUE

\* `a or b`
pyOr(a, b) == IF truthy(a) THEN a ELSE b

RECURSIVE joinTexts(_, _)
joinTexts(xs, sep) ==
    IF xs = <<>> THEN <<>>
    ELSE IF Len(xs) = 1 THEN xs[1]
    ELSE xs[1] \o sep \o joinTexts(Tail(xs), sep)

\* json.dumps(value, ensure_ascii=False) of a scalar or of an array of scalars
jsonText(v) ==
    CASE v.t = "str"  -> <<"\"">> \o v.s \o <<"\"">>
      [] v.t = "null" -> <<"n","u","l","l">>
      [] OTHER        -> v.s
json_dumps(v) ==
    IF v.t = "arr"
    THEN <<"[">> \o joinTexts([i \in 1..Len(v.items) |-> jsonText(v.items[i])],
                              <<",", " ">>) \o <<"]">>
    ELSE jsonText(v)

\* str(value); for an array of numbers repr and JSON text coincide
str(v) == IF v.t = "arr" THEN VStr(json_dumps(v)) ELSE VStr(v.s)

\* lines 178-181 without the test of the type
normalize_value_unserialized(value) == value

normalize_value(value) ==
    IF value.t = "arr" THEN VStr(json_dumps(value)) ELSE value

(***************************************************************************)
(* Documents: a dict is the sequence of its items, in key order.           *)
(***************************************************************************)
hasKey(data, key) == \E i \in 1..Len(data) : data[i].k = key

\* dict.get(key): None for an absent key
dictGet(data, key) ==
    IF hasKey(data, key)
    THEN data[CHOOSE i \in 1..Len(data) : data[i].k = key].v
    ELSE PyNone

get_schema_id(data) ==
    LET hits == {i \in 1..Len(data) : lower(dropUnderscores(data[i].k)) = T_schemaid}
    IN  IF hits = {} THEN PyNone
        ELSE str(data[CHOOSE i \in hits : \A j \in hits : i <= j].v)

get_identifier(data, fallback) ==
    str(pyOr(dictGet(data, T_Identifier),
             pyOr(dictGet(data, T_identifier), VStr(fallback))))

(***************************************************************************)
(* The worlds the ingesters run in: the remote listing, the documents the  *)
(* server may hold, the schema directory and the target tables.            *)
(***************************************************************************)
N_T1 == <<"T","1">>
N_T2 == <<"T","2">>
N_T3 == <<"T","3">>
N_T9 == <<"T","9">>
N_x  == <<"x">>
N_y  == <<"y">>

H_dir   == <<"/","d","/">>
H_bjson == <<"/","d","/","b",".","j","s","o","n">>
H_cJSON == <<"/","d","/","c",".","J","S","O","N">>
H_ntxt  == <<"/","d","/","n",".","t","x","t">>

\* what the server lists under the target collection, in its order
Listing ==
    << [href |-> H_dir,   is_collection |-> TRUE],
       [href |-> H_bjson, is_collection |-> FALSE],
       [href |-> H_ntxt,  is_collection |-> FALSE],
       [href |-> H_cJSON, is_collection |-> FALSE] >>

Hrefs == {Listing[i].href : i \in 1..Len(Listing)}

\* line 344: the candidates of a listing
isCandidate(e) == ~e.is_collection /\ endswith(lower(e.href), T_dotjson)

Tokens == {"1", "2"}

Marker == [k |-> T_FileTypeIdentifier, v |-> VStr(FILE_TYPE_IDENTIFIER)]
F(key, value) == [k |-> key, v |-> value]

\* body: text (not JSON), array (JSON, not an object) or object; valid: whether
\* the payload satisfies the schema its SchemaID names
DocNames == {"text", "array", "nomarker", "wrongmarker", "noschema", "plain",
             "withid", "upperid", "twoids", "emptyid", "invalid", "t2doc",
             "t3doc", "t9doc"}
Docs ==
    [name \in DocNames |->
    CASE name = "text"  -> [body |-> "text",   valid |-> FALSE, fields |-> <<>>]
      [] name = "array" -> [body |-> "array",  valid |-> FALSE, fields |-> <<>>]
      [] name = "nomarker" -> [body |-> "object", valid |-> TRUE, fields |->
            << F(T_SchemaID, VStr(N_T1)), F(T_Identifier, VStr(N_x)) >>]
      [] name = "wrongmarker" -> [body |-> "object", valid |-> TRUE, fields |->
            << F(T_FileTypeIdentifier, VStr(<<"o","t","h","e","r">>)),
               F(T_SchemaID, VStr(N_T1)) >>]
      [] name = "noschema" -> [body |-> "object", valid |-> TRUE, fields |->
            << Marker, F(T_Identifier, VStr(N_x)) >>]
      [] name = "plain" -> [body |-> "object", valid |-> TRUE, fields |->
            << Marker, F(T_SchemaID, VStr(N_T1)), F(T_Value, VNum(<<"4","2">>)) >>]
      [] name = "withid" -> [body |-> "object", valid |-> TRUE, fields |->
            << Marker, F(T_SchemaID, VStr(N_T1)), F(T_Identifier, VStr(N_x)),
               F(T_Value, VArr(<<VNum(<<"1">>), VNum(<<"2">>)>>)) >>]
      [] name = "upperid" -> [body |-> "object", valid |-> TRUE, fields |->
            << Marker, F(T_Schema_ID, VStr(N_T1)), F(T_IDENTIFIER, VStr(N_x)) >>]
      [] name = "twoids" -> [body |-> "object", valid |-> TRUE, fields |->
            << Marker, F(T_SchemaID, VStr(N_T1)), F(T_Identifier, VStr(N_x)),
               F(T_identifier, VStr(N_y)) >>]
      [] name = "emptyid" -> [body |-> "object", valid |-> TRUE, fields |->
            << Marker, F(T_SchemaID, VStr(N_T1)), F(T_Identifier, VStr(<<>>)) >>]
      [] name = "invalid" -> [body |-> "object", valid |-> FALSE, fields |->
            << Marker, F(T_SchemaID, VStr(N_T1)), F(T_Identifier, VStr(N_y)) >>]
      [] name = "t2doc" -> [body |-> "object", valid |-> TRUE, fields |->
            << Marker, F(T_SchemaID, VStr(N_T2)), F(T_identifier, VStr(N_y)),
               F(T_Value, PyNone) >>]
      [] name = "t3doc" -> [body |-> "object", valid |-> TRUE, fields |->
            << Marker, F(T_SchemaID, VStr(N_T3)) >>]
      [] OTHER -> [body |-> "object", valid |-> TRUE, fields |->
            << Marker, F(T_SchemaID, VStr(N_T9)), F(T_Identifier, VStr(N_x)) >>]]

\* the document of a name
Doc(name) == Docs[name]

\* the documents the model puts at each path: every kind at one path, and at
\* the other a document with the same identifier or one that is no object
DocsAt(href) == IF href = H_bjson THEN DocNames ELSE {"withid", "array"}
\* the documents a change of the server puts there
ChangedDocs(href) == IF href = H_bjson THEN {"withid", "t2doc"} ELSE {"withid"}

\* {schema_dir}/{SchemaID}.json exists
SchemaFiles == {N_T1, N_T2, N_T3}

\* the target tables of the database and their columns, in order
TableNames == {N_T1, N_T2}
Columns(table) ==
    IF table = N_T1 THEN <<T_Identifier, T_DocumentLocation, T_Value>>
    ELSE IF table = N_T2 THEN <<T_identifier, T_Value>>
    ELSE <<>>

\* SQL LIKE: _ matches one character, % any run of characters
RECURSIVE like(_, _)
like(text, pattern) ==
    IF pattern = <<>> THEN text = <<>>
    ELSE IF Head(pattern) = "%"
         THEN \E n \in 0..Len(text) : like(SubSeq(text, n + 1, Len(text)), Tail(pattern))
    ELSE /\ text # <<>>
         /\ Head(pattern) = "_" \/ lowerChar(Head(pattern)) = lowerChar(Head(text))
         /\ like(Tail(text), Tail(pattern))

\* SHOW TABLES LIKE %s returns a row
table_exists(table) == \E name \in TableNames : like(name, table)

\* SHOW COLUMNS FROM `table`
get_columns(table) == Columns(table)

\* data_keys = {str(k).lower(): k ...}: the last key of a lower-cased name wins
data_keys_get(data, lname) ==
    LET hits == {i \in 1..Len(data) : lower(data[i].k) = lname}
    IN  IF hits = {} THEN PyNone
        ELSE VStr(data[CHOOSE i \in hits : \A j \in hits : j <= i].k)

\* the values list of one row: the loop over the table's columns; the value
\* of a column is computed once and then normalised
projectColumn(column, data, identifier, location) ==
    LET key   == data_keys_get(data, lower(column))
        value == IF key # PyNone THEN dictGet(data, key.s) ELSE PyNone
        filled == IF value # PyNone THEN value
                  ELSE IF lower(column) = T_identifier THEN identifier
                  ELSE IF lower(column) = T_documentlocation THEN location
                  ELSE value
    IN  CHOOSE out \in {normalize_value(v) : v \in {filled}} : TRUE

project(columns, data, identifier, location) ==
    [c \in 1..Len(columns) |-> projectColumn(columns[c], data, identifier, location)]

\* "Identifier" if "Identifier" in columns else "identifier"
identifier_col(columns) ==
    IF \E c \in 1..Len(columns) : columns[c] = T_Identifier
    THEN T_Identifier ELSE T_identifier

\* the position of a column by name (column names are case-insensitive in SQL),
\* 0 when the table has no such column
columnIndex(columns, name) ==
    IF \E c \in 1..Len(columns) : lower(columns[c]) = lower(name)
    THEN CHOOSE c \in 1..Len(columns) : lower(columns[c]) = lower(name)
    ELSE 0

\* WHERE `column` = %s on one row: NULL matches nothing
cellMatches(row, c, identifier) ==
    /\ c # 0
    /\ row.vals[c].t # "null"
    /\ row.vals[c].s = identifier.s

\* build_file_url: the server's origin in front of an href under the base path
Origin == <<"https://example.nextcloud.com">>
BasePath == H_dir
RECURSIVE lstripSlash(_)
lstripSlash(s) == IF s # <<>> /\ Head(s) = "/" THEN lstripSlash(Tail(s)) ELSE s
build_file_url(href) ==
    IF Len(BasePath) <= Len(href) /\ SubSeq(href, 1, Len(BasePath)) = BasePath
    THEN Origin \o href
    ELSE Origin \o BasePath \o lstripSlash(href)

(***************************************************************************)
(* State                                                                   *)
(***************************************************************************)
VARIABLES
    remote,        \* the server: per candidate href its etag, last_modified, document
    ingest_state,  \* the committed rows of table ingest_state, by path
    tables,        \* the committed rows of each target table, in insertion order
    lockMode,      \* what SELECT ... FOR UPDATE locks when no row matches
    locks,         \* the row and gap locks the open transactions hold
    loc,           \* per ingester process: its position and local variables
    faults,        \* failures of the database or the transport so far
    changes,       \* changes of the remote documents so far
    runs,          \* process starts so far
    disk,          \* the source directory: per path the document of the file there
    state_file,    \* .db_ingest_state.json: whether it exists, and its entries
    uniqueKey,     \* per table: whether its identifier column carries a unique key
    fsloc,         \* the filesystem ingester: its position and local variables
    call           \* the function last applied on its own: arguments and result

fsVars == <<disk, state_file, uniqueKey, fsloc, call>>
vars == <<remote, ingest_state, tables, lockMode, locks, loc, faults, changes, runs,
          disk, state_file, uniqueKey, fsloc, call>>

\* the bounds of the model
MaxCycles  == 2
MaxFaults  == 1
MaxChanges == 1
MaxRuns    == 2

Procs == {"p1", "p2"}

CandHrefs == {Listing[i].href : i \in {j \in 1..Len(Listing) : isCandidate(Listing[j])}}

NoRecord ==
    [etag |-> "", last_modified |-> "", schema_id |-> PyNone, identifier |-> PyNone,
     status |-> "absent"]

\* ALLOWED_SCHEMAIDS unset, or a list
AllowConfigs == { [on |-> FALSE, ids |-> {}], [on |-> TRUE, ids |-> {N_T1}] }

\* the local variables of main() as a run starts
Fresh(once, allowed) ==
    [pc |-> "connect", once |-> once, allowed_schemaids |-> allowed, conn |-> FALSE,
     cycle |-> 0, files |-> <<>>, state_map |-> <<>>, idx |-> 1,
     data |-> "none", schema_id |-> PyNone, identifier |-> PyNone,
     site |-> "", status |-> "", ok |-> FALSE, msg |-> "",
     pendingState |-> <<>>, pendingRow |-> <<>>,
     gets |-> {}, ops |-> <<>>, exc |-> "", wrote |-> FALSE]

Off == [Fresh(TRUE, [on |-> FALSE, ids |-> {}]) EXCEPT !.pc = "off"]

\* a call of the database or of the transport succeeds, or fails while the
\* budget of failures lasts
Outcomes == IF faults < MaxFaults THEN {TRUE, FALSE} ELSE {TRUE}
Count(ok) == faults' = IF ok THEN faults ELSE faults + 1

item(p) == loc[p].files[loc[p].idx]

\* line 355 with the status compared to a string no record carries
UnchangedWrongStatus(prev, entry) ==
    /\ prev.status # "absent"
    /\ prev.etag = entry.etag
    /\ prev.last_modified = entry.last_modified
    /\ prev.status = "OK"

\* line 355 without the test of the status
UnchangedIgnoringStatus(prev, entry) ==
    /\ prev.status # "absent"
    /\ prev.etag = entry.etag
    /\ prev.last_modified = entry.last_modified

\* line 355 with every record but an error taken as settled
UnchangedUnlessError(prev, entry) ==
    /\ prev.status # "absent"
    /\ prev.etag = entry.etag
    /\ prev.last_modified = entry.last_modified
    /\ prev.status # "error"

\* line 355
Unchanged(prev, entry) ==
    /\ prev.status # "absent"
    /\ prev.etag = entry.etag
    /\ prev.last_modified = entry.last_modified
    /\ prev.status = "ok"

\* the locks of a transaction go with its commit or rollback
Release(p) == {l \in locks : l.p # p}

\* an exception leaves the per-document code: the except clause of line 415 for
\* the code of lines 393 to 414, the finally clause of line 423 for the rest
Raise(l, name) ==
    IF l.pc \in {"pf_checks", "pf_select", "pf_dup_commit", "pf_insert", "pf_commit"}
       \/ (l.pc \in {"record", "commit"} /\ l.site = "result")
    THEN [l EXCEPT !.pc = "except", !.msg = name]
    ELSE [l EXCEPT !.pc = "finally", !.exc = name]

(***************************************************************************)
(* The remote ingester: main() of webdav_ingest.py, one action per step.   *)
(***************************************************************************)
\* lines 317-330: pymysql.connect
Connect(p) ==
    /\ loc[p].pc = "connect"
    /\ \E ok \in Outcomes :
        /\ Count(ok)
        /\ loc' = [loc EXCEPT ![p] =
                     IF ok THEN [@ EXCEPT !.pc = "ensure", !.conn = TRUE]
                     ELSE IF @.once THEN [@ EXCEPT !.pc = "exit_exc", !.exc = "connect"]
                     ELSE [@ EXCEPT !.pc = "sleep"]]
    /\ UNCHANGED <<remote, ingest_state, tables, lockMode, locks, changes, runs, fsVars>>

\* lines 333-334: ensure_state_table and its commit
EnsureStateTable(p) ==
    /\ loc[p].pc = "ensure"
    /\ \E ok \in Outcomes :
        /\ Count(ok)
        /\ loc' = [loc EXCEPT ![p] =
                     IF ok THEN [@ EXCEPT !.pc = "propfind"] ELSE Raise(@, "database")]
    /\ UNCHANGED <<remote, ingest_state, tables, lockMode, locks, changes, runs, fsVars>>

\* what PROPFIND answers now
ListedEntry(e) ==
    IF e.href \in DOMAIN remote
    THEN [href |-> e.href, etag |-> remote[e.href].etag,
          last_modified |-> remote[e.href].last_modified,
          is_collection |-> e.is_collection]
    ELSE [href |-> e.href, etag |-> "", last_modified |-> "",
          is_collection |-> e.is_collection]

\* lines 336-345: the listing and its candidates
Propfind(p) ==
    /\ loc[p].pc = "propfind"
    /\ \E ok \in Outcomes :
        /\ Count(ok)
        /\ LET entries == [i \in 1..Len(Listing) |-> ListedEntry(Listing[i])]
           IN loc' = [loc EXCEPT ![p] =
                 IF ok THEN [@ EXCEPT !.pc = "load", !.cycle = @ + 1, !.gets = {},
                                      !.files = SelectSeq(entries, isCandidate)]
                 ELSE IF @.once THEN [@ EXCEPT !.pc = "finally", !.exc = "propfind"]
                 ELSE [@ EXCEPT !.pc = "sleep"]]
    /\ UNCHANGED <<remote, ingest_state, tables, lockMode, locks, changes, runs, fsVars>>

\* lines 132-148: the stored records of the listed paths
get_state_map(paths) == [h \in paths |-> ingest_state[h]]

\* line 346
LoadState(p) ==
    /\ loc[p].pc = "load"
    /\ \E ok \in Outcomes :
        /\ Count(ok)
        /\ loc' = [loc EXCEPT ![p] =
             IF ok THEN [@ EXCEPT !.pc = "item", !.idx = 1,
                          !.state_map = get_state_map({loc[p].files[i].href :
                                                        i \in 1..Len(loc[p].files)})]
             ELSE Raise(@, "database")]
    /\ UNCHANGED <<remote, ingest_state, tables, lockMode, locks, changes, runs, fsVars>>

\* state_map.get(href)
prevOf(l, href) == IF href \in DOMAIN l.state_map THEN l.state_map[href] ELSE NoRecord

\* lines 349-357: the head of the loop over files; the loop's end leads to
\* the finally clause
ForItem(p) ==
    /\ loc[p].pc = "item"
    /\ loc' = [loc EXCEPT ![p] =
         IF @.idx > Len(@.files) THEN [@ EXCEPT !.pc = "finally"]
         ELSE IF Unchanged(prevOf(@, item(p).href), item(p)) THEN [@ EXCEPT !.idx = @ + 1]
         ELSE [@ EXCEPT !.pc = "get", !.ops = <<>>, !.data = "none",
                        !.schema_id = PyNone, !.identifier = PyNone, !.msg = ""]]
    /\ UNCHANGED <<remote, ingest_state, tables, lockMode, locks, faults, changes, runs, fsVars>>

\* lines 359-371: GET and response.json()
Get(p) ==
    /\ loc[p].pc = "get"
    /\ \E ok \in Outcomes :
        /\ Count(ok)
        /\ LET doc == remote[item(p).href].doc
           IN loc' = [loc EXCEPT ![p] =
                 IF ok /\ Doc(doc).body # "text"
                 THEN [@ EXCEPT !.pc = "typecheck", !.data = doc,
                                !.gets = @ \cup {item(p).href}, !.ops = Append(@, "get")]
                 ELSE [@ EXCEPT !.pc = "record", !.site = "fetch", !.status = "error",
                                !.msg = "download/parse error",
                                !.gets = @ \cup {item(p).href}, !.ops = Append(@, "get")]]
    /\ UNCHANGED <<remote, ingest_state, tables, lockMode, locks, changes, runs, fsVars>>

\* lines 373-380: data.get("FileTypeIdentifier"); a body that is no object has no get
TypeCheck(p) ==
    /\ loc[p].pc = "typecheck"
    /\ LET d == Doc(loc[p].data)
       IN loc' = [loc EXCEPT ![p] =
             IF d.body # "object" THEN Raise(@, "AttributeError")
             ELSE IF dictGet(d.fields, T_FileTypeIdentifier) # VStr(FILE_TYPE_IDENTIFIER)
             THEN [@ EXCEPT !.pc = "record", !.site = "type", !.status = "skipped",
                            !.msg = "invalid FileTypeIdentifier", !.ops = Append(@, "marker")]
             ELSE [@ EXCEPT !.pc = "route", !.ops = Append(@, "marker")]]
    /\ UNCHANGED <<remote, ingest_state, tables, lockMode, locks, faults, changes, runs, fsVars>>

\* lines 382-392: get_schema_id and get_identifier
Route(p) ==
    /\ loc[p].pc = "route"
    /\ LET d   == Doc(loc[p].data)
           sid == get_schema_id(d.fields)
       IN loc' = [loc EXCEPT ![p] =
             IF ~truthy(sid)
             THEN [@ EXCEPT !.pc = "record", !.site = "noschema", !.status = "skipped",
                            !.msg = "missing SchemaID", !.ops = Append(@, "schemaid")]
             ELSE [@ EXCEPT !.pc = "pf_checks", !.schema_id = sid,
                            !.identifier = get_identifier(d.fields, stem(item(p).href)),
                            !.ops = Append(@, "schemaid")]]
    /\ UNCHANGED <<remote, ingest_state, tables, lockMode, locks, faults, changes, runs, fsVars>>

(***************************************************************************)
(* process_file of webdav_ingest.py                                        *)
(***************************************************************************)
\* process_file returns (ok, msg) to line 395
Return(l, ok, msg, ops) ==
    [l EXCEPT !.pc = "record", !.site = "result", !.ok = ok, !.msg = msg,
              !.ops = l.ops \o ops]

\* line 221
\* an allow-list test that lets every SchemaID through
AllowedIgnoringList(allowed_schemaids, schema_id) == TRUE

allowed(allowed_schemaids, schema_id) ==
    ~allowed_schemaids.on \/ schema_id \in allowed_schemaids.ids

\* a validator that reports no violation for any document
validate_payload_accepting(data) == PyNone

\* lines 202-208: the message of the first violation, None for a valid document
validate_payload(data) ==
    IF Doc(data).valid THEN PyNone ELSE VStr(<<"v","i","o","l","a","t","i","o","n">>)

\* lines 221-238: allow-list, schema file, validation, table and columns
PF_Checks(p) ==
    /\ loc[p].pc = "pf_checks"
    /\ LET l     == loc[p]
           table == l.schema_id.s
           local == /\ allowed(l.allowed_schemaids, table)
                    /\ table \in SchemaFiles
                    /\ ~truthy(validate_payload(l.data))
       IN \E ok \in IF local THEN Outcomes ELSE {TRUE} :
            /\ Count(ok)
            /\ loc' = [loc EXCEPT ![p] =
                 IF ~allowed(l.allowed_schemaids, table)
                 THEN Return(l, FALSE, "not in allow-list", <<"allow">>)
                 ELSE IF table \notin SchemaFiles
                 THEN Return(l, FALSE, "schema file not found", <<"allow", "schema">>)
                 ELSE IF truthy(validate_payload(l.data))
                 THEN Return(l, FALSE, "schema validation failed",
                             <<"allow", "schema", "validate">>)
                 ELSE IF ~ok THEN Raise(l, "database")
                 ELSE IF ~table_exists(table)
                 THEN Return(l, FALSE, "table does not exist",
                             <<"allow", "schema", "validate", "table_exists">>)
                 ELSE IF get_columns(table) = <<>>
                 THEN Return(l, FALSE, "table has no columns",
                             <<"allow", "schema", "validate", "table_exists", "get_columns">>)
                 ELSE [l EXCEPT !.pc = "pf_select",
                                !.ops = @ \o <<"allow", "schema", "validate",
                                               "table_exists", "get_columns">>]]
    /\ UNCHANGED <<remote, ingest_state, tables, lockMode, locks, changes, runs, fsVars>>

\* the position of the column the existence check and delete_row compare
idColumn(table) == columnIndex(get_columns(table), identifier_col(get_columns(table)))

matching(rows, c, identifier) == {i \in 1..Len(rows) : cellMatches(rows[i], c, identifier)}

\* the row lines 248-263 insert; src is the document and listing entry it came from
NewRow(p) ==
    LET l == loc[p]
    IN  [vals |-> project(get_columns(l.schema_id.s), Doc(l.data).fields, l.identifier,
                          VStr(build_file_url(item(p).href))),
         src  |-> [href |-> item(p).href, etag |-> item(p).etag,
                   last_modified |-> item(p).last_modified, doc |-> l.data, by |-> p]]

\* the transactions whose locks make p's SELECT ... FOR UPDATE wait: a row
\* lock on a matching row, or a matching row inserted and not yet committed
SelectBlockers(p) ==
    LET l == loc[p]
        table == l.schema_id.s
    IN {q \in Procs \ {p} :
          \/ \E lk \in locks : /\ lk.p = q /\ lk.kind = "row"
                               /\ lk.table = table /\ lk.id = l.identifier.s
          \/ /\ loc[q].pendingRow # <<>>
             /\ loc[q].pendingRow[1].table = table
             /\ cellMatches(loc[q].pendingRow[1].row, idColumn(table), l.identifier)}

\* the transactions whose gap lock makes p's INSERT wait
InsertBlockers(p) ==
    LET table == loc[p].schema_id.s
        cell  == NewRow(p).vals[idColumn(table)]
    IN {q \in Procs \ {p} :
          \E lk \in locks : /\ lk.p = q /\ lk.kind = "gap" /\ lk.table = table
                            /\ cell.t # "null" /\ lk.id = cell.s}

\* what the existence check of line 243 locks when no row matches: under
\* "gap" the gap where the key would be (shared with other such locks), under
\* "row" nothing
AbsentLock(p, table, id) ==
    IF lockMode = "gap" THEN {[p |-> p, kind |-> "gap", table |-> table, id |-> id]}
    ELSE {}

\* lines 240-244: SELECT 1 ... WHERE identifier_col = %s LIMIT 1 FOR UPDATE
PF_Select(p) ==
    /\ loc[p].pc = "pf_select"
    /\ LET l     == loc[p]
           table == l.schema_id.s
           c     == idColumn(table)
       IN \E ok \in Outcomes :
            /\ Count(ok)
            /\ ok => SelectBlockers(p) = {}
            /\ IF ~ok \/ c = 0
               THEN /\ loc' = [loc EXCEPT ![p] = Raise(l, "database")]
                    /\ locks' = locks
               ELSE IF matching(tables[table], c, l.identifier) # {}
               THEN /\ loc' = [loc EXCEPT ![p] =
                                 [l EXCEPT !.pc = "pf_dup_commit", !.ops = Append(@, "select")]]
                    /\ locks' = locks \cup {[p |-> p, kind |-> "row", table |-> table,
                                             id |-> l.identifier.s]}
               ELSE /\ loc' = [loc EXCEPT ![p] =
                                 [l EXCEPT !.pc = "pf_insert", !.ops = Append(@, "select")]]
                    /\ locks' = locks \cup AbsentLock(p, table, l.identifier.s)
    /\ UNCHANGED <<remote, ingest_state, tables, lockMode, changes, runs, fsVars>>

\* a commit that loses the REPLACE of the state row
CommittedStateLost(p) == ingest_state

\* conn.commit(): the transaction's writes become the committed rows
CommittedState(p) ==
    IF loc[p].pendingState = <<>> THEN ingest_state
    ELSE [ingest_state EXCEPT ![loc[p].pendingState[1].path] = loc[p].pendingState[1].rec]
CommittedTables(p) ==
    IF loc[p].pendingRow = <<>> THEN tables
    ELSE [tables EXCEPT ![loc[p].pendingRow[1].table] = Append(@, loc[p].pendingRow[1].row)]

\* lines 245-246: the identifier exists
PF_DupCommit(p) ==
    /\ loc[p].pc = "pf_dup_commit"
    /\ \E ok \in Outcomes :
        /\ Count(ok)
        /\ IF ok
           THEN /\ loc' = [loc EXCEPT ![p] =
                             Return(loc[p], FALSE, "already exists", <<"commit">>)]
                /\ locks' = Release(p)
           ELSE /\ loc' = [loc EXCEPT ![p] = Raise(@, "database")]
                /\ locks' = locks
    /\ UNCHANGED <<remote, ingest_state, tables, lockMode, changes, runs, fsVars>>

\* lines 248-263: the projection and the INSERT. Two transactions that each
\* hold a gap lock the other's INSERT waits for are deadlocked: the database
\* rolls one back and its INSERT raises.
PF_Insert(p) ==
    /\ loc[p].pc = "pf_insert"
    /\ LET l == loc[p]
           deadlock == \E q \in InsertBlockers(p) :
                          loc[q].pc = "pf_insert" /\ p \in InsertBlockers(q)
       IN \E ok \in Outcomes :
            /\ Count(ok)
            /\ (ok /\ ~deadlock) => InsertBlockers(p) = {}
            /\ IF ~ok
               THEN /\ loc' = [loc EXCEPT ![p] = Raise(l, "database")]
                    /\ locks' = locks
               ELSE IF deadlock
               THEN /\ loc' = [loc EXCEPT ![p] = Raise(l, "deadlock")]
                    /\ locks' = Release(p)
               ELSE /\ loc' = [loc EXCEPT ![p] =
                                 [l EXCEPT !.pc = "pf_commit", !.wrote = TRUE,
                                           !.ops = Append(@, "insert"),
                                           !.pendingRow = <<[table |-> l.schema_id.s,
                                                             row |-> NewRow(p)]>>]]
                    /\ locks' = locks
    /\ UNCHANGED <<remote, ingest_state, tables, lockMode, changes, runs, fsVars>>

\* lines 264-265
PF_Commit(p) ==
    /\ loc[p].pc = "pf_commit"
    /\ \E ok \in Outcomes :
        /\ Count(ok)
        /\ IF ok
           THEN /\ loc' = [loc EXCEPT ![p] =
                             [Return(loc[p], TRUE, "inserted", <<"commit">>)
                                EXCEPT !.pendingRow = <<>>]]
                /\ tables' = CommittedTables(p)
                /\ locks' = Release(p)
           ELSE /\ loc' = [loc EXCEPT ![p] = Raise(@, "database")]
                /\ UNCHANGED <<tables, locks>>
    /\ UNCHANGED <<remote, ingest_state, lockMode, changes, runs, fsVars>>

(***************************************************************************)
(* Recording the outcome, and the ends of a cycle                          *)
(***************************************************************************)
\* line 405 with every result that is no insert recorded as an error
statusOfSkipAsError(l) ==
    IF l.site = "result" THEN (IF l.ok THEN "ok" ELSE "error") ELSE l.status

\* line 405
statusOf(l) ==
    IF l.site = "result" THEN (IF l.ok THEN "ok" ELSE "skipped") ELSE l.status

\* the row a REPLACE INTO ingest_state writes: lines 366, 375 and 385 give no
\* schema_id and identifier, lines 406 and 418 do
StateRecord(l, entry) ==
    [etag |-> entry.etag, last_modified |-> entry.last_modified,
     schema_id  |-> IF l.site \in {"result", "except"} THEN l.schema_id ELSE PyNone,
     identifier |-> IF l.site \in {"result", "except"} THEN l.identifier ELSE PyNone,
     status |-> statusOf(l)]

\* lines 366-369, 375-378, 385-388, 405-409, 418-421: REPLACE INTO ingest_state
Record(p) ==
    /\ loc[p].pc = "record"
    /\ \E ok \in Outcomes :
        /\ Count(ok)
        /\ loc' = [loc EXCEPT ![p] =
             IF ok
             THEN [@ EXCEPT !.pc = "commit", !.wrote = TRUE,
                            !.pendingState = <<[path |-> item(p).href,
                                                rec  |-> StateRecord(loc[p], item(p))]>>]
             ELSE Raise(@, "database")]
    /\ UNCHANGED <<remote, ingest_state, tables, lockMode, locks, changes, runs, fsVars>>

\* lines 370-371, 379-380, 389-390, 410, 422: conn.commit(), then the next file
Commit(p) ==
    /\ loc[p].pc = "commit"
    /\ \E ok \in Outcomes :
        /\ Count(ok)
        /\ IF ok
           THEN /\ loc' = [loc EXCEPT ![p] =
                            [@ EXCEPT !.pc = "item", !.idx = @ + 1,
                                      !.pendingState = <<>>, !.pendingRow = <<>>]]
                /\ ingest_state' = CommittedState(p)
                /\ tables' = CommittedTables(p)
                /\ locks' = Release(p)
           ELSE /\ loc' = [loc EXCEPT ![p] = Raise(@, "database")]
                /\ UNCHANGED <<ingest_state, tables, locks>>
    /\ UNCHANGED <<remote, lockMode, changes, runs, fsVars>>

\* lines 415-417 without conn.rollback(): the statements of the failed
\* document stay in the open transaction
ExceptNoRollback(p) ==
    /\ loc[p].pc = "except"
    /\ \E ok \in Outcomes :
        /\ Count(ok)
        /\ IF ok
           THEN loc' = [loc EXCEPT ![p] =
                          [@ EXCEPT !.pc = "record", !.site = "except", !.status = "error"]]
           ELSE loc' = [loc EXCEPT ![p] = [@ EXCEPT !.pc = "finally", !.exc = "database"]]
    /\ UNCHANGED <<remote, ingest_state, tables, lockMode, locks, changes, runs, fsVars>>

\* lines 415-417: conn.rollback(), then the error record
Except(p) ==
    /\ loc[p].pc = "except"
    /\ \E ok \in Outcomes :
        /\ Count(ok)
        /\ IF ok
           THEN /\ loc' = [loc EXCEPT ![p] =
                            [@ EXCEPT !.pc = "record", !.site = "except",
                                      !.status = "error",
                                      !.pendingState = <<>>, !.pendingRow = <<>>]]
                /\ locks' = Release(p)
           ELSE /\ loc' = [loc EXCEPT ![p] = [@ EXCEPT !.pc = "finally", !.exc = "database"]]
                /\ locks' = locks
    /\ UNCHANGED <<remote, ingest_state, tables, lockMode, changes, runs, fsVars>>

\* lines 423-428 without conn.close()
FinallyNoClose(p) ==
    /\ loc[p].pc = "finally"
    /\ loc' = [loc EXCEPT ![p] =
         [@ EXCEPT !.pc = IF loc[p].exc # "" THEN "exit_exc"
                          ELSE IF loc[p].once THEN "exit_ok" ELSE "sleep"]]
    /\ UNCHANGED <<remote, ingest_state, tables, lockMode, locks, faults, changes, runs, fsVars>>

\* lines 423-428: conn.close() ends the open transaction; an exception on its
\* way out leaves main(), --once breaks the loop, otherwise the process sleeps
Finally(p) ==
    /\ loc[p].pc = "finally"
    /\ loc' = [loc EXCEPT ![p] =
         [@ EXCEPT !.conn = FALSE, !.pendingState = <<>>, !.pendingRow = <<>>,
                   !.pc = IF loc[p].exc # "" THEN "exit_exc"
                          ELSE IF loc[p].once THEN "exit_ok" ELSE "sleep"]]
    /\ locks' = Release(p)
    /\ UNCHANGED <<remote, ingest_state, tables, lockMode, faults, changes, runs, fsVars>>

\* time.sleep(poll_interval) returns: lines 329-330, 342-343 (continue runs
\* the finally clause) and 428
Wake(p) ==
    /\ loc[p].pc = "sleep"
    /\ loc[p].cycle < MaxCycles
    /\ loc' = [loc EXCEPT ![p] = [@ EXCEPT !.pc = "connect", !.conn = FALSE]]
    /\ locks' = Release(p)
    /\ UNCHANGED <<remote, ingest_state, tables, lockMode, faults, changes, runs, fsVars>>

Terminal == {"off", "crashed", "exit_ok", "exit_exc"}

\* the process is killed: its variables are gone and the server rolls its
\* open transaction back
Crash(p) ==
    /\ loc[p].pc \notin Terminal
    /\ loc' = [loc EXCEPT ![p] = [Off EXCEPT !.pc = "crashed"]]
    /\ locks' = Release(p)
    /\ UNCHANGED <<remote, ingest_state, tables, lockMode, faults, changes, runs, fsVars>>

\* the ingester is started again, with the options of that start
Restart(p) ==
    /\ loc[p].pc \in Terminal \ {"off"}
    /\ runs < MaxRuns
    /\ runs' = runs + 1
    /\ \E once \in BOOLEAN, a \in AllowConfigs :
         loc' = [loc EXCEPT ![p] = Fresh(once, a)]
    /\ UNCHANGED <<remote, ingest_state, tables, lockMode, locks, faults, changes, fsVars>>

\* lines 298-300: the allow-list after the operator has added SchemaIDs to it
WiderConfigs == { [on |-> TRUE, ids |-> {N_T1, N_T2}] }

\* the operator stops the ingester between two scans, or finds it ended, and
\* starts it again with a wider allow-list
Reconfigure(p) ==
    /\ loc[p].pc \in {"sleep", "exit_ok", "exit_exc"}
    /\ runs < MaxRuns
    /\ runs' = runs + 1
    /\ \E once \in BOOLEAN, a \in WiderConfigs :
         /\ loc[p].allowed_schemaids.on
         /\ loc[p].allowed_schemaids.ids \subseteq a.ids
         /\ loc' = [loc EXCEPT ![p] = Fresh(once, a)]
    /\ UNCHANGED <<remote, ingest_state, tables, lockMode, locks, faults, changes, fsVars>>

\* a document on the server is replaced: its change token changes
RemoteChange ==
    /\ changes < MaxChanges
    /\ changes' = changes + 1
    /\ \E h \in CandHrefs, e \in Tokens, m \in Tokens : \E d \in ChangedDocs(h) :
         /\ <<e, m>> # <<remote[h].etag, remote[h].last_modified>>
         /\ remote' = [remote EXCEPT ![h] = [etag |-> e, last_modified |-> m, doc |-> d]]
    /\ UNCHANGED <<ingest_state, tables, lockMode, locks, loc, faults, runs, fsVars>>

\* a document on the server is written again with the same content: only its
\* change token changes
RemoteTouch ==
    /\ changes < MaxChanges
    /\ changes' = changes + 1
    /\ \E h \in CandHrefs, e \in Tokens, m \in Tokens :
         /\ <<e, m>> # <<remote[h].etag, remote[h].last_modified>>
         /\ remote' = [remote EXCEPT ![h] = [etag |-> e, last_modified |-> m,
                                              doc |-> remote[h].doc]]
    /\ UNCHANGED <<ingest_state, tables, lockMode, locks, loc, faults, runs, fsVars>>

(***************************************************************************)
(* The filesystem ingester: insert_data2db_win.py                          *)
(***************************************************************************)
P_a     == <<"/","i","n","/","a",".","j","s","o","n">>
P_b     == <<"/","i","n","/","b",".","j","s","o","n">>
P_sub_a == <<"/","i","n","/","s","u","b","/","a",".","j","s","o","n">>
P_state == <<"/","i","n","/",".","d","b","_","i","n","g","e","s","t","_",
             "s","t","a","t","e",".","j","s","o","n">>
T_state_name == SubSeq(P_state, 5, Len(P_state))

\* the paths source_dir.rglob("*.json") may yield, in its order
FsPathSeq == <<P_state, P_a, P_b, P_sub_a>>
FsPaths   == {P_a, P_b, P_sub_a}

\* the files the model puts at each path: "absent" is no file
FsDocsAt(path) ==
    IF path = P_a THEN {"withid", "plain", "upperid", "array"}
    ELSE IF path = P_b THEN {"withid", "t2doc", "noschema", "t9doc", "absent"}
    ELSE {"absent"}
\* what a write to the directory puts at a path
FsChangedDocs(path) == IF path = P_a THEN {"plain", "text", "absent"} ELSE {"withid", "absent"}

MaxScans == 2

\* file_path.name
name(path) == SubSeq(path, rfind(path, "/") + 1, Len(path))

\* the local variables of run_once() and the options of main()
FsFresh(delete_missing, watch) ==
    [pc |-> "fs_start", delete_missing |-> delete_missing, watch |-> watch,
     conn |-> FALSE, prev_state |-> {}, current_state |-> {},
     todo |-> <<>>, idx |-> 1, data |-> "none", table |-> <<>>, identifier |-> PyNone,
     missing |-> <<>>, scans |-> 0, exc |-> "", log |-> <<>>]

FsOff == [FsFresh(FALSE, FALSE) EXCEPT !.pc = "fs_off"]

\* the entry of a snapshot for a path; a snapshot is a set of entries, one per path
entryOf(state, path) == CHOOSE e \in state : e.path = path
pathsOf(state) == {e.path : e \in state}

\* lines 131-139: the previous snapshot, {} when the file is missing
FsStart ==
    /\ fsloc.pc = "fs_start"
    /\ fsloc' = [fsloc EXCEPT !.pc = "fs_connect", !.scans = @ + 1, !.exc = "",
                              !.prev_state = IF state_file.exists THEN state_file.entries
                                             ELSE {},
                              !.current_state = {}]
    /\ UNCHANGED <<remote, ingest_state, tables, lockMode, locks, loc, faults, changes,
                   runs, disk, state_file, uniqueKey, call>>

\* what rglob("*.json") yields
exists(path) == IF path = P_state THEN state_file.exists ELSE disk[path] # "absent"

\* lines 141-151: pymysql.connect outside the try, then the directory walk
FsConnect ==
    /\ fsloc.pc = "fs_connect"
    /\ \E ok \in Outcomes :
        /\ Count(ok)
        /\ fsloc' = IF ok
                    THEN [fsloc EXCEPT !.pc = "fs_file", !.conn = TRUE, !.idx = 1,
                                       !.todo = SelectSeq(FsPathSeq, exists)]
                    ELSE [fsloc EXCEPT !.pc = "fs_exit_exc", !.exc = "connect"]
    /\ UNCHANGED <<remote, ingest_state, tables, lockMode, locks, loc, changes,
                   runs, disk, state_file, uniqueKey, call>>

\* line 166
fs_identifier(data, path) ==
    pyOr(dictGet(data, T_Identifier), pyOr(dictGet(data, T_identifier), VStr(stem(path))))

\* line 179-180: the paths of the previous snapshot the scan did not record
missingPaths(l) ==
    IF l.delete_missing
    THEN SelectSeq(FsPathSeq, LAMBDA q : q \in pathsOf(l.prev_state)
                                        /\ q \notin pathsOf(l.current_state))
    ELSE <<>>

\* lines 151-172: one file of the walk up to the call of process_file; after
\* the last file, line 178
FsRead ==
    /\ fsloc.pc = "fs_file"
    /\ LET l == fsloc
           path == l.todo[l.idx]
           d == Doc(disk[path])
           sid == get_schema_id(d.fields)
           next == [l EXCEPT !.idx = @ + 1]
       IN fsloc' =
            IF l.idx > Len(l.todo)
            THEN [l EXCEPT !.pc = "fs_reconcile", !.missing = missingPaths(l)]
            ELSE IF name(path) = T_state_name THEN next
            ELSE IF disk[path] = "absent" \/ d.body = "text" THEN next
            ELSE IF d.body # "object"
            THEN [l EXCEPT !.pc = "fs_close", !.exc = "AttributeError"]
            ELSE IF ~truthy(sid) THEN next
            ELSE [l EXCEPT !.pc = "fs_process", !.data = disk[path], !.table = sid.s,
                           !.identifier = fs_identifier(d.fields, path),
                           !.current_state =
                               {e \in @ : e.path # path} \cup
                               {[path |-> path, table |-> sid.s,
                                 identifier |-> fs_identifier(d.fields, path)]}]
    /\ UNCHANGED <<remote, ingest_state, tables, lockMode, locks, loc, faults, changes,
                   runs, disk, state_file, uniqueKey, call>>

\* lines 95-107 of insert_data2db_win.py: the row of the file the loop is at
FsNewRow ==
    LET l == fsloc
        path == l.todo[l.idx]
    IN  [vals |-> project(get_columns(l.table), Doc(l.data).fields, l.identifier,
                          VStr(path)),
         src  |-> [href |-> path, etag |-> "", last_modified |-> "", doc |-> l.data,
                   by |-> "fs"]]

\* lines 109-116: INSERT ... ON DUPLICATE KEY UPDATE. A row whose unique key
\* equals the new row's is overwritten in all its columns; without such a row,
\* or without a unique key, the row is added.
merge_write(rows, table, row) ==
    LET c == idColumn(table)
        dup == {i \in 1..Len(rows) : c # 0 /\ cellMatches(rows[i], c, row.vals[c])}
    IN  IF uniqueKey[table] /\ dup # {}
        THEN [rows EXCEPT ![CHOOSE i \in dup : \A j \in dup : i <= j] = row]
        ELSE Append(rows, row)

\* lines 173-176 and 84-116: process_file; its exception is printed and the
\* walk goes on
FsProcessFile ==
    /\ fsloc.pc = "fs_process"
    /\ LET l == fsloc
           wrote == table_exists(l.table) /\ l.table \in TableNames
                    /\ get_columns(l.table) # <<>>
       IN \E ok \in Outcomes :
            /\ Count(ok)
            /\ IF ok /\ wrote
               THEN /\ tables' = [tables EXCEPT ![l.table] =
                                     merge_write(@, l.table, FsNewRow)]
                    /\ fsloc' = [l EXCEPT !.pc = "fs_file", !.idx = @ + 1,
                                   !.log = Append(@, [table |-> l.table,
                                                      identifier |-> l.identifier,
                                                      vals |-> FsNewRow.vals])]
               ELSE /\ tables' = tables
                    /\ fsloc' = [l EXCEPT !.pc = "fs_file", !.idx = @ + 1]
    /\ UNCHANGED <<remote, ingest_state, lockMode, locks, loc, changes,
                   runs, disk, state_file, uniqueKey, call>>

\* lines 119-127: delete_row
delete_row(rows, table, identifier) ==
    LET columns == get_columns(table)
        literal(n) == \E c \in 1..Len(columns) : columns[c] = n
        column == IF literal(T_Identifier) THEN T_Identifier ELSE T_identifier
    IN  IF ~literal(T_Identifier) /\ ~literal(T_identifier) THEN rows
        ELSE SelectSeq(rows, LAMBDA r :
                 ~cellMatches(r, columnIndex(columns, column), identifier))

\* lines 178-184: the row of one missing path is deleted, an exception is
\* printed; after the last one the with and try blocks end
FsReconcile ==
    /\ fsloc.pc = "fs_reconcile"
    /\ LET l == fsloc
       IN IF l.missing = <<>>
          THEN /\ fsloc' = [l EXCEPT !.pc = "fs_close"]
               /\ UNCHANGED <<tables, faults>>
          ELSE LET info == entryOf(l.prev_state, Head(l.missing))
               IN \E ok \in Outcomes :
                    /\ Count(ok)
                    /\ fsloc' = [l EXCEPT !.missing = Tail(@)]
                    /\ tables' = IF ok /\ info.table \in TableNames
                                 THEN [tables EXCEPT ![info.table] =
                                         delete_row(@, info.table, info.identifier)]
                                 ELSE tables
    /\ UNCHANGED <<remote, ingest_state, lockMode, locks, loc, changes,
                   runs, disk, state_file, uniqueKey, call>>

\* lines 185-186: conn.close(); an exception of the walk goes on out of run_once
FsClose ==
    /\ fsloc.pc = "fs_close"
    /\ fsloc' = [fsloc EXCEPT !.conn = FALSE,
                              !.pc = IF fsloc.exc # "" THEN "fs_exit_exc" ELSE "fs_write"]
    /\ UNCHANGED <<remote, ingest_state, tables, lockMode, locks, loc, faults, changes,
                   runs, disk, state_file, uniqueKey, call>>

\* line 188 and lines 204-209: the snapshot is written; --watch sleeps
FsWriteState ==
    /\ fsloc.pc = "fs_write"
    /\ state_file' = [exists |-> TRUE, entries |-> fsloc.current_state]
    /\ fsloc' = [fsloc EXCEPT !.pc = IF fsloc.watch THEN "fs_sleep" ELSE "fs_done"]
    /\ UNCHANGED <<remote, ingest_state, tables, lockMode, locks, loc, faults, changes,
                   runs, disk, uniqueKey, call>>

\* lines 205-207: time.sleep(interval) returns and run_once is called again
FsWake ==
    /\ fsloc.pc = "fs_sleep"
    /\ fsloc.scans < MaxScans
    /\ fsloc' = [fsloc EXCEPT !.pc = "fs_start"]
    /\ UNCHANGED <<remote, ingest_state, tables, lockMode, locks, loc, faults, changes,
                   runs, disk, state_file, uniqueKey, call>>

\* the scheduler starts the program again with the same options
FsRerun ==
    /\ fsloc.pc \in {"fs_done", "fs_exit_exc"}
    /\ fsloc.scans < MaxScans
    /\ fsloc' = [fsloc EXCEPT !.pc = "fs_start"]
    /\ UNCHANGED <<remote, ingest_state, tables, lockMode, locks, loc, faults, changes,
                   runs, disk, state_file, uniqueKey, call>>

\* a file of the source directory is written, replaced or removed, or a.json
\* is moved into the subdirectory
FsChange ==
    /\ changes < MaxChanges
    /\ changes' = changes + 1
    /\ \/ \E path \in FsPaths : \E d \in FsChangedDocs(path) :
            /\ d # disk[path]
            /\ disk' = [disk EXCEPT ![path] = d]
       \/ /\ disk[P_a] # "absent"
          /\ disk[P_sub_a] = "absent"
          /\ disk' = [disk EXCEPT ![P_a] = "absent", ![P_sub_a] = disk[P_a]]
    /\ UNCHANGED <<remote, ingest_state, tables, lockMode, locks, loc, faults,
                   runs, state_file, uniqueKey, fsloc, call>>

FsStep ==
    \/ FsStart \/ FsConnect \/ FsRead \/ FsProcessFile \/ FsReconcile
    \/ FsClose \/ FsWriteState \/ FsWake \/ FsRerun

\* no function applied on its own
NoCall == [fn |-> "none", columns |-> <<>>, data |-> <<>>, identifier |-> PyNone,
           location |-> PyNone, result |-> <<>>]

Step(p) ==
    \/ Connect(p) \/ EnsureStateTable(p) \/ Propfind(p) \/ LoadState(p)
    \/ ForItem(p) \/ Get(p) \/ TypeCheck(p) \/ Route(p)
    \/ PF_Checks(p) \/ PF_Select(p) \/ PF_DupCommit(p) \/ PF_Insert(p) \/ PF_Commit(p)
    \/ Record(p) \/ Commit(p) \/ Except(p) \/ Finally(p) \/ Wake(p)

Init ==
    /\ remote \in [CandHrefs -> {[etag |-> "1", last_modified |-> "1", doc |-> d] :
                                   d \in DocNames}]
    /\ \A h \in CandHrefs : remote[h].doc \in DocsAt(h)
    /\ ingest_state = [h \in CandHrefs |-> NoRecord]
    /\ tables = [t \in TableNames |-> <<>>]
    /\ lockMode = "gap"
    /\ locks = {}
    /\ \E once \in BOOLEAN, a \in AllowConfigs :
         loc = [p \in Procs |-> IF p = "p1" THEN Fresh(once, a) ELSE Off]
    /\ faults = 0
    /\ changes = 0
    /\ runs = 1
    /\ disk = [path \in FsPaths |-> "absent"]
    /\ state_file = [exists |-> FALSE, entries |-> {}]
    /\ uniqueKey = [t \in TableNames |-> FALSE]
    /\ call = NoCall
    /\ fsloc = FsOff

Next ==
    \/ \E p \in {"p1"} : Step(p) \/ Crash(p) \/ Restart(p)
    \/ RemoteChange

Spec == Init /\ [][Next]_vars

\* one run with --once that is never killed; the process keeps running, so a
\* step it can take is taken
OnceStep(p) ==
    \/ Connect(p) \/ EnsureStateTable(p) \/ Propfind(p) \/ LoadState(p)
    \/ ForItem(p) \/ Get(p) \/ TypeCheck(p) \/ Route(p)
    \/ PF_Checks(p) \/ PF_Select(p) \/ PF_DupCommit(p) \/ PF_Insert(p) \/ PF_Commit(p)
    \/ Record(p) \/ Commit(p) \/ Except(p) \/ Finally(p)

InitOnce == Init /\ loc["p1"].once

NextOnce == OnceStep("p1") \/ RemoteChange

SpecOnce == InitOnce /\ [][NextOnce]_vars /\ WF_vars(OnceStep("p1"))

\* an ingester with an allow-list that is started again with a wider one; the
\* process keeps running, so a step it can take is taken
InitHeal ==
    /\ Init
    /\ remote[H_bjson].doc \in {"t2doc", "withid"}
    /\ loc["p1"].allowed_schemaids = [on |-> TRUE, ids |-> {N_T1}]

NextHeal == Step("p1") \/ Reconfigure("p1") \/ RemoteChange

SpecHeal == InitHeal /\ [][NextHeal]_vars /\ WF_vars(Step("p1"))

\* one ingester without an allow-list on a server whose documents are written
\* again unchanged
InitTouch ==
    /\ Init
    /\ remote[H_bjson].doc \in {"withid", "plain", "upperid", "twoids"}
    /\ ~loc["p1"].allowed_schemaids.on

NextTouch == Step("p1") \/ RemoteTouch

SpecTouch == InitTouch /\ [][NextTouch]_vars

\* two ingesters started on the same server and database, no failures, no
\* changes of the server: the race of the existence check and the insert
InitRace ==
    /\ remote \in [CandHrefs -> {[etag |-> "1", last_modified |-> "1", doc |-> d] :
                                   d \in {"withid", "plain", "t2doc"}}]
    /\ remote[H_cJSON].doc = "withid"
    /\ ingest_state = [h \in CandHrefs |-> NoRecord]
    /\ tables = [t \in TableNames |-> <<>>]
    /\ lockMode \in {"gap", "row"}
    /\ locks = {}
    /\ \E once \in BOOLEAN :
         loc = [p \in Procs |-> Fresh(once, [on |-> FALSE, ids |-> {}])]
    /\ faults = MaxFaults
    /\ changes = MaxChanges
    /\ runs = MaxRuns
    /\ disk = [path \in FsPaths |-> "absent"]
    /\ state_file = [exists |-> FALSE, entries |-> {}]
    /\ uniqueKey = [t \in TableNames |-> FALSE]
    /\ call = NoCall
    /\ fsloc = FsOff

NextRace == \E p \in Procs : Step(p)

SpecRace == InitRace /\ [][NextRace]_vars

\* the filesystem ingester alone, on a directory that changes
InitFs ==
    /\ remote = [h \in CandHrefs |-> [etag |-> "1", last_modified |-> "1", doc |-> "plain"]]
    /\ ingest_state = [h \in CandHrefs |-> NoRecord]
    /\ tables = [t \in TableNames |-> <<>>]
    /\ lockMode = "gap"
    /\ locks = {}
    /\ loc = [p \in Procs |-> Off]
    /\ faults = 0
    /\ changes = 0
    /\ runs = MaxRuns
    /\ disk \in [FsPaths -> DocNames \cup {"absent"}]
    /\ \A path \in FsPaths : disk[path] \in FsDocsAt(path)
    /\ state_file = [exists |-> FALSE, entries |-> {}]
    /\ \E b \in BOOLEAN : uniqueKey = [t \in TableNames |-> b]
    /\ call = NoCall
    /\ \E delete_missing \in BOOLEAN, watch \in BOOLEAN :
         fsloc = FsFresh(delete_missing, watch)

NextFs == FsStep \/ FsChange

SpecFs == InitFs /\ [][NextFs]_vars

\* the remote ingester run once and, when it has ended, the filesystem
\* ingester, on the same database
InitBoth ==
    /\ remote \in [CandHrefs -> {[etag |-> "1", last_modified |-> "1", doc |-> d] :
                                   d \in {"withid", "plain", "t2doc"}}]
    /\ remote[H_cJSON].doc = "withid"
    /\ ingest_state = [h \in CandHrefs |-> NoRecord]
    /\ tables = [t \in TableNames |-> <<>>]
    /\ lockMode = "gap"
    /\ locks = {}
    /\ loc = [p \in Procs |-> IF p = "p1" THEN Fresh(TRUE, [on |-> FALSE, ids |-> {}])
                              ELSE Off]
    /\ faults = 0
    /\ changes = MaxChanges
    /\ runs = MaxRuns
    /\ disk \in [FsPaths -> {"withid", "plain", "t2doc", "absent"}]
    /\ disk[P_a] \in {"withid", "plain"}
    /\ disk[P_b] \in {"t2doc", "absent"}
    /\ disk[P_sub_a] = "absent"
    /\ state_file = [exists |-> FALSE, entries |-> {}]
    /\ \E b \in BOOLEAN : uniqueKey = [t \in TableNames |-> b]
    /\ call = NoCall
    /\ \E delete_missing \in BOOLEAN, watch \in BOOLEAN :
         fsloc = FsFresh(delete_missing, watch)

\* the filesystem ingester is started when the remote ingester has ended
FsAfterRemote == loc["p1"].pc \in Terminal /\ FsStep

NextBoth == OnceStep("p1") \/ FsAfterRemote

SpecBoth == InitBoth /\ [][NextBoth]_vars

(***************************************************************************)
(* Properties of the remote ingester                                       *)
(***************************************************************************)
\* the positions of a scan between the load of the state and the finally clause
ScanPcs == {"item", "get", "typecheck", "route", "pf_checks", "pf_select",
            "pf_dup_commit", "pf_insert", "pf_commit", "record", "commit", "except"}
InScan(p) == loc[p].pc \in ScanPcs
AtItem(p) == loc[p].pc = "item" /\ loc[p].idx <= Len(loc[p].files)
\* the entries of the current scan the loop is done with
Passed(p) == IF InScan(p) THEN 1..(loc[p].idx - 1) ELSE {}

\* a record with status ok and the entry's change token
SameTokenOk(rec, entry) ==
    rec.status = "ok" /\ rec.etag = entry.etag /\ rec.last_modified = entry.last_modified

\* C1: when the loop reaches a listed .json entry whose etag and last_modified
\* equal the stored record's and whose stored status is ok, its step issues no
\* GET for the entry and leaves ingest_state and every target table as they are.
C1_UnchangedSkipped ==
    [][\A p \in Procs :
         (AtItem(p) /\ SameTokenOk(ingest_state[item(p).href], item(p)))
         => /\ loc'[p].pc # "get"
            /\ item(p).href \notin loc'[p].gets
            /\ ingest_state' = ingest_state
            /\ tables' = tables]_vars

\* an entry was passed without a GET while its record is ok with the same token
C1_Witness ==
    \E p \in Procs : \E i \in Passed(p) :
        /\ SameTokenOk(ingest_state[loc[p].files[i].href], loc[p].files[i])
        /\ loc[p].files[i].href \notin loc[p].gets

\* C2: every entry of the scan the loop is done with that had no record, or a
\* record with another etag or last_modified, or a record with status error or
\* skipped when the scan loaded the state, was fetched in this scan.
C2_ChangedFetched ==
    \A p \in Procs : \A i \in Passed(p) :
        LET e == loc[p].files[i]
        IN  ~SameTokenOk(prevOf(loc[p], e.href), e) => e.href \in loc[p].gets

\* an entry whose record was skipped or error with the very same token was fetched
C2_Witness ==
    \E p \in Procs : \E i \in Passed(p) :
        LET e == loc[p].files[i]
            prev == prevOf(loc[p], e.href)
        IN  /\ prev.status \in {"error", "skipped"}
            /\ prev.etag = e.etag /\ prev.last_modified = e.last_modified
            /\ e.href \in loc[p].gets

\* C4: every entry the loop is done with and that was fetched has a committed
\* record with the entry's etag and last_modified and a status ok, skipped or error.
C4_OutcomeRecorded ==
    \A p \in Procs : \A i \in Passed(p) :
        LET e == loc[p].files[i]
            rec == ingest_state[e.href]
        IN  e.href \in loc[p].gets
            => /\ rec.etag = e.etag
               /\ rec.last_modified = e.last_modified
               /\ rec.status \in {"ok", "skipped", "error"}

\* the record of an exception raised by process_file is committed and the loop went on
C4_Witness ==
    \E p \in Procs : \E i \in Passed(p) :
        LET e == loc[p].files[i]
        IN  /\ e.href \in loc[p].gets
            /\ ingest_state[e.href].status = "error"
            /\ ingest_state[e.href].schema_id # PyNone
            /\ ingest_state[e.href].etag = e.etag

\* C5: a scan ends before its last entry only by a failure of the database or of
\* the listing, never by a failure that concerns one document.
C5_DocumentFailureNeverAborts ==
    \A p \in Procs :
        (loc[p].pc = "finally" /\ loc[p].exc \notin {"connect", "propfind", "database"})
        => loc[p].idx > Len(loc[p].files)

\* C6: every record with status ok names a table and an identifier such that the
\* table holds a committed row with that identifier, inserted from the document
\* of that path fetched under the recorded change token.
C6_OkImpliesRow ==
    \A h \in CandHrefs :
        LET rec == ingest_state[h]
        IN  rec.status = "ok"
            => /\ rec.schema_id.s \in TableNames
               /\ \E i \in 1..Len(tables[rec.schema_id.s]) :
                    LET row == tables[rec.schema_id.s][i]
                    IN  /\ cellMatches(row, idColumn(rec.schema_id.s), rec.identifier)
                        /\ row.src.href = h
                        /\ row.src.etag = rec.etag
                        /\ row.src.last_modified = rec.last_modified

\* C7: without --once the process never ends by an exception.
C7_ContinuousNeverExits ==
    \A p \in Procs : ~loc[p].once => loc[p].pc # "exit_exc"

\* the measure that every step of a run lowers unless it starts a new cycle
Rank(l) ==
    LET inItem ==
          CASE l.pc = "item" -> 13 [] l.pc = "get" -> 12 [] l.pc = "typecheck" -> 11
            [] l.pc = "route" -> 10 [] l.pc = "pf_checks" -> 9 [] l.pc = "pf_select" -> 8
            [] l.pc = "pf_insert" -> 7 [] l.pc \in {"pf_commit", "pf_dup_commit"} -> 6
            [] l.pc = "record" -> (IF l.site = "except" THEN 2 ELSE 5)
            [] l.pc = "commit" -> (IF l.site = "except" THEN 1 ELSE 4)
            [] OTHER -> 3
        top == 16 + (Len(Listing) + 1) * 14
    IN  CASE l.pc \in Terminal -> 0
          [] l.pc = "finally"  -> 1
          [] l.pc \in ScanPcs  -> 2 + (Len(l.files) + 1 - l.idx) * 14 + inItem
          [] l.pc = "load"     -> top
          [] l.pc = "propfind" -> top + 1
          [] l.pc = "ensure"   -> top + 2
          [] l.pc = "connect"  -> top + 3
          [] OTHER             -> top + 4

\* C8: a run with --once reaches its exit; it makes at most one cycle and never
\* sleeps, and each of its steps brings it closer to its exit; it exits with its
\* connection closed; when the connect or the listing failed it exits by the
\* exception with no GET issued and nothing written, and when the cycle
\* completed it exits without an exception.
C8_OnceTerminates ==
    /\ <>(loc["p1"].pc \in {"exit_ok", "exit_exc"})
    /\ [](\A p \in Procs : loc[p].once =>
            /\ loc[p].cycle <= 1
            /\ loc[p].pc # "sleep"
            /\ loc[p].pc \in {"exit_ok", "exit_exc"} => ~loc[p].conn
            /\ (loc[p].pc = "exit_exc" /\ loc[p].exc \in {"connect", "propfind"})
                 => (loc[p].gets = {} /\ ~loc[p].wrote)
            /\ loc[p].pc = "exit_ok" => loc[p].exc = "")
    /\ [][\A p \in Procs :
            (loc[p].once /\ loc'[p] # loc[p] /\ runs' = runs)
            => Rank(loc'[p]) < Rank(loc[p])]_vars

\* a run with --once ended by the failed listing, its connection closed
C8_Witness ==
    \E p \in Procs :
        /\ loc[p].once /\ loc[p].pc = "exit_exc" /\ loc[p].exc = "propfind"
        /\ ~loc[p].conn

(***************************************************************************)
(* Properties of two concurrent remote ingesters                           *)
(***************************************************************************)
\* the identifier cell of a row of a table
idCell(t, row) == row.vals[idColumn(t)]

\* C3: of the concurrent calls of process_file for one identifier and table one
\* inserts and every other returns the 'already exists' skip: no table ever
\* holds two rows with one identifier, and no call ends by the exception of a
\* deadlock instead of the skip.
C3_InsertOnlyUnderRace ==
    /\ \A t \in TableNames : \A i, j \in 1..Len(tables[t]) :
          (i # j /\ idCell(t, tables[t][i]).t # "null")
          => idCell(t, tables[t][i]) # idCell(t, tables[t][j])
    /\ \A p \in Procs : loc[p].pc = "except" => loc[p].msg # "deadlock"

(***************************************************************************)
(* Properties of the filesystem ingester                                   *)
(***************************************************************************)
\* the rows of a table whose identifier cell is the identifier
rowsOf(tbls, t, identifier) ==
    {i \in 1..Len(tbls[t]) : cellMatches(tbls[t][i], idColumn(t), identifier)}

\* C9: when process_file has written for a table and an identifier it wrote for
\* before, the table holds exactly one row with that identifier and the row's
\* values are the projection of this last write.
C9_MergeWriteIdempotent ==
    [][LET log  == fsloc'.log
           last == log[Len(log)]
       IN  (Len(log) > Len(fsloc.log)
            /\ \E i \in 1..Len(fsloc.log) :
                  log[i].table = last.table /\ log[i].identifier = last.identifier)
           => /\ Cardinality(rowsOf(tables', last.table, last.identifier)) = 1
              /\ \A i \in rowsOf(tables', last.table, last.identifier) :
                    tables'[last.table][i].vals = last.vals]_vars

\* C10: with --delete-missing and no failure of the database, when a scan that
\* saw only paths of the previous snapshot, and not all of them, has written its
\* snapshot, every path it did not see has no row with its recorded identifier
\* in its recorded table and no entry in the snapshot, and every path it saw
\* has its row and its entry.
C10_MissingDeletedPresentKept ==
    (/\ fsloc.pc \in {"fs_sleep", "fs_done"} /\ fsloc.delete_missing /\ faults = 0
     /\ pathsOf(fsloc.current_state) \subseteq pathsOf(fsloc.prev_state)
     /\ pathsOf(fsloc.current_state) # pathsOf(fsloc.prev_state))
    => \A e \in fsloc.prev_state :
         IF e.path \notin pathsOf(fsloc.current_state)
         THEN /\ e.path \notin pathsOf(state_file.entries)
              /\ e.table \in TableNames => rowsOf(tables, e.table, e.identifier) = {}
         ELSE /\ e.path \in pathsOf(state_file.entries)
              /\ LET t == entryOf(fsloc.current_state, e.path).table
                 IN  t \in TableNames
                     => \E i \in 1..Len(tables[t]) : tables[t][i].src.href = e.path

(***************************************************************************)
(* Properties of process_file in the remote ingester                       *)
(***************************************************************************)
\* the operations on a target table or on the transaction
TableOps == {"table_exists", "get_columns", "select", "insert", "commit"}
opsOf(l) == {l.ops[i] : i \in 1..Len(l.ops)}

\* process_file has returned the skip of the allow-list for the current document
NotAllowedReturned(p) ==
    /\ loc[p].pc \in {"record", "commit"}
    /\ loc[p].site = "result"
    /\ loc[p].msg = "not in allow-list"

\* C11: with an allow-list, process_file called for a SchemaID the list does not
\* hold returns the skip 'not in allow-list' in one step that calls no database
\* and changes no table and no lock; for that document no table was looked up,
\* locked or written, and the record written for it has status skipped.
C11_NotAllowedSkipped ==
    /\ [][\A p \in Procs :
            (/\ loc[p].pc = "pf_checks"
             /\ loc[p].allowed_schemaids.on
             /\ loc[p].schema_id.s \notin loc[p].allowed_schemaids.ids
             /\ loc'[p] # loc[p] /\ loc'[p].pc # "crashed")
            => /\ loc'[p].pc = "record" /\ loc'[p].site = "result"
               /\ ~loc'[p].ok /\ loc'[p].msg = "not in allow-list"
               /\ tables' = tables /\ locks' = locks /\ faults' = faults]_vars
    /\ [](\A p \in Procs : NotAllowedReturned(p) =>
            /\ opsOf(loc[p]) \cap TableOps = {}
            /\ loc[p].pendingRow = <<>>
            /\ \A lk \in locks : lk.p # p
            /\ loc[p].pc = "commit" => loc[p].pendingState[1].rec.status = "skipped")

\* the skipped record of a document outside the allow-list is about to be committed
C11_Witness ==
    \E p \in Procs :
        /\ NotAllowedReturned(p) /\ loc[p].pc = "commit"
        /\ loc[p].schema_id = VStr(N_T2)
        /\ loc[p].allowed_schemaids = [on |-> TRUE, ids |-> {N_T1}]
        /\ loc[p].pendingState[1].rec.status = "skipped"

\* the record of the entry is skipped with the entry's token and SchemaID T2
SkippedT2(h) ==
    /\ ingest_state[h].status = "skipped"
    /\ ingest_state[h].schema_id = VStr(N_T2)
    /\ ingest_state[h].etag = remote[h].etag
    /\ ingest_state[h].last_modified = remote[h].last_modified
    /\ remote[h].doc = "t2doc"

\* the ingester has just been started with T2 in its allow-list; no call fails
\* and the server does not change from here on
StartedAllowingT2(p) ==
    /\ loc[p].pc = "connect" /\ loc[p].cycle = 0
    /\ loc[p].allowed_schemaids.on /\ N_T2 \in loc[p].allowed_schemaids.ids
    /\ faults = MaxFaults /\ changes = MaxChanges

\* the rows of the table an entry's document was inserted as
rowsFrom(t, h) == {i \in 1..Len(tables[t]) : tables[t][i].src.href = h}

\* C12: a document recorded skipped because its SchemaID T2 was outside the
\* allow-list, whose token has not changed, is fetched again by the scan of an
\* ingester started with T2 in the allow-list: a record with status skipped never
\* makes the loop pass the entry, and when the document validates and table T2
\* holds no row of its identifier, the scan inserts it and records it ok.
C12_AllowListSelfHealing ==
    /\ [][\A p \in Procs :
            (/\ AtItem(p)
             /\ prevOf(loc[p], item(p).href).status = "skipped"
             /\ loc'[p] # loc[p])
            => loc'[p].pc = "get"]_vars
    /\ \A h \in CandHrefs :
         (/\ StartedAllowingT2("p1")
          /\ SkippedT2(h)
          /\ matching(tables[N_T2], idColumn(N_T2), VStr(N_y)) = {})
         ~> (/\ ingest_state[h].status = "ok"
             /\ h \in loc["p1"].gets
             /\ rowsFrom(N_T2, h) # {})

\* the ingester is started with T2 allowed while the record is still skipped
C12_Witness ==
    /\ StartedAllowingT2("p1")
    /\ SkippedT2(H_bjson)
    /\ tables[N_T2] = <<>>

(***************************************************************************)
(* The functions on their own: get_identifier and the column projection,   *)
(* applied to every small document                                         *)
(***************************************************************************)
\* the most keys of a document the functions are applied to
MaxKeys == 2

\* the documents: up to MaxKeys items with these keys and values; a dict holds
\* a key once
PureDocs ==
    LET keys   == {T_Identifier, T_identifier, T_IDENTIFIER, T_Value}
        values == {VStr(N_x), VStr(<<>>), VNum(<<"0">>), PyNone,
                   VArr(<<VNum(<<"1">>), VNum(<<"2">>)>>)}
        items  == {F(k, v) : k \in keys, v \in values}
    IN  {d \in UNION {[1..n -> items] : n \in 0..MaxKeys} :
            \A i, j \in 1..Len(d) : d[i].k = d[j].k => i = j}

\* lines 392-393 of webdav_ingest.py and 166, 174 of insert_data2db_win.py:
\* the identifier and the location each ingester passes to its process_file
PureCallers(data) ==
    { [identifier |-> get_identifier(data, stem(H_bjson)),
       location   |-> VStr(build_file_url(H_bjson))],
      [identifier |-> fs_identifier(data, P_a), location |-> VStr(P_a)] }

\* the projection of lines 248-258 and 95-107 applied to a document
ApplyProject ==
    /\ call = NoCall
    /\ \E t \in TableNames, data \in PureDocs : \E c \in PureCallers(data) :
         call' = [fn |-> "project", columns |-> get_columns(t), data |-> data,
                  identifier |-> c.identifier, location |-> c.location,
                  result |-> project(get_columns(t), data, c.identifier, c.location)]
    /\ UNCHANGED <<remote, ingest_state, tables, lockMode, locks, loc, faults, changes,
                   runs, disk, state_file, uniqueKey, fsloc>>

\* get_identifier of lines 191-192 applied to a document and a path stem
ApplyGetIdentifier ==
    /\ call = NoCall
    /\ \E data \in PureDocs, href \in CandHrefs :
         call' = [fn |-> "get_identifier", columns |-> <<>>, data |-> data,
                  identifier |-> PyNone, location |-> VStr(stem(href)),
                  result |-> <<get_identifier(data, stem(href))>>]
    /\ UNCHANGED <<remote, ingest_state, tables, lockMode, locks, loc, faults, changes,
                   runs, disk, state_file, uniqueKey, fsloc>>

\* line 166 of insert_data2db_win.py applied to a document and a path
ApplyFsIdentifier ==
    /\ call = NoCall
    /\ \E data \in PureDocs, path \in FsPaths :
         call' = [fn |-> "fs_identifier", columns |-> <<>>, data |-> data,
                  identifier |-> PyNone, location |-> VStr(stem(path)),
                  result |-> <<fs_identifier(data, path)>>]
    /\ UNCHANGED <<remote, ingest_state, tables, lockMode, locks, loc, faults, changes,
                   runs, disk, state_file, uniqueKey, fsloc>>

\* both ingesters idle; only the functions are applied
InitPure ==
    /\ remote = [h \in CandHrefs |-> [etag |-> "1", last_modified |-> "1", doc |-> "plain"]]
    /\ ingest_state = [h \in CandHrefs |-> NoRecord]
    /\ tables = [t \in TableNames |-> <<>>]
    /\ lockMode = "gap"
    /\ locks = {}
    /\ loc = [p \in Procs |-> Off]
    /\ faults = 0
    /\ changes = 0
    /\ runs = MaxRuns
    /\ disk = [path \in FsPaths |-> "absent"]
    /\ state_file = [exists |-> FALSE, entries |-> {}]
    /\ uniqueKey = [t \in TableNames |-> FALSE]
    /\ fsloc = FsOff
    /\ call = NoCall

NextPure == ApplyProject \/ ApplyGetIdentifier \/ ApplyFsIdentifier

SpecPure == InitPure /\ [][NextPure]_vars

(***************************************************************************)
(* Properties of the column projection                                     *)
(***************************************************************************)
\* the document keys that match a column without regard to case
keyHits(data, column) == {i \in 1..Len(data) : lower(data[i].k) = lower(column)}

\* the default of a column: the identifier, the location, or NULL
defaultOf(column, identifier, location) ==
    IF lower(column) = T_identifier THEN identifier
    ELSE IF lower(column) = T_documentlocation THEN location
    ELSE PyNone

\* a value as stored: the JSON text of an array, a scalar as it is
asStored(v) == IF v.t = "arr" THEN VStr(json_dumps(v)) ELSE v

\* the row has one value per column, in column order
OnePerColumn == Len(call.result) = Len(call.columns)

\* C13 as stated: one value per column in column order; a column without a
\* matching key gets its default (NULL, the identifier or the location); a column
\* with a matching key gets that key's value, an array as JSON text and a scalar
\* unchanged.
C13_ProjectionAsStated ==
    call.fn = "project" =>
        /\ OnePerColumn
        /\ \A c \in 1..Len(call.columns) :
             LET hits == keyHits(call.data, call.columns[c])
             IN  IF hits = {}
                 THEN call.result[c] =
                        asStored(defaultOf(call.columns[c], call.identifier, call.location))
                 ELSE \E i \in hits : call.result[c] = asStored(call.data[i].v)

\* C13: one value per column in column order; a column without a matching key,
\* or whose matching key holds null, gets its default (NULL, the identifier or
\* the location); every other column gets the value of the last key that
\* matches it, an array as JSON text and a scalar unchanged.
C13_Projection ==
    call.fn = "project" =>
        /\ OnePerColumn
        /\ \A c \in 1..Len(call.columns) :
             LET hits == keyHits(call.data, call.columns[c])
                 last == CHOOSE i \in hits : \A j \in hits : j <= i
                 dflt == asStored(defaultOf(call.columns[c], call.identifier,
                                            call.location))
             IN  IF hits = {} THEN call.result[c] = dflt
                 ELSE IF call.data[last].v = PyNone THEN call.result[c] = dflt
                 ELSE call.result[c] = asStored(call.data[last].v)

\* a row with a default, a JSON text and a value of the last of two matching keys
C13_Witness ==
    /\ call.fn = "project"
    /\ call.columns = get_columns(N_T1)
    /\ call.data = << F(T_IDENTIFIER, VStr(<<>>)),
                      F(T_Value, VArr(<<VNum(<<"1">>), VNum(<<"2">>)>>)) >>
    /\ call.result = << VStr(<<>>), call.location, VStr(<<"[","1",","," ","2","]">>) >>

(***************************************************************************)
(* Properties of get_identifier                                            *)
(***************************************************************************)
\* C14: the identifier of a document is the value of its key Identifier when
\* the document has that key, else the value of its key identifier when it has
\* that key, and the default only when it has neither key: a present key with an
\* empty, zero or null value is not replaced.
C14_IdentifierOfPresentKey ==
    call.fn \in {"get_identifier", "fs_identifier"} =>
        LET chosen == IF hasKey(call.data, T_Identifier)
                      THEN dictGet(call.data, T_Identifier)
                      ELSE IF hasKey(call.data, T_identifier)
                      THEN dictGet(call.data, T_identifier)
                      ELSE call.location
        IN  call.result[1] = IF call.fn = "get_identifier" THEN str(chosen) ELSE chosen

(***************************************************************************)
(* Properties of the existence check and of the order of the checks        *)
(***************************************************************************)
\* the rows of the document's table that carry the identifier it is checked by
existing(p) ==
    matching(tables[loc[p].schema_id.s], idColumn(loc[p].schema_id.s), loc[p].identifier)

\* the step of p ends neither by a kill nor by an exception
Proceeds(p) == loc'[p] # loc[p] /\ loc'[p].pc \notin {"crashed", "except", "finally"}

\* C15: when the existence check of process_file finds a row of the identifier
\* and no call fails, the call inserts nothing and leaves every row of every
\* table as it is, commits (the row lock is released), returns the skip
\* 'already exists', and the record written for the document has status skipped.
C15_DuplicateSkipped ==
    /\ [][\A p \in Procs :
            (loc[p].pc = "pf_select" /\ existing(p) # {} /\ Proceeds(p))
            => loc'[p].pc = "pf_dup_commit" /\ tables' = tables]_vars
    /\ [][\A p \in Procs :
            (loc[p].pc = "pf_dup_commit" /\ Proceeds(p))
            => /\ loc'[p].pc = "record" /\ loc'[p].site = "result"
               /\ ~loc'[p].ok /\ loc'[p].msg = "already exists"
               /\ tables' = tables
               /\ \A lk \in locks' : lk.p # p]_vars
    /\ [](\A p \in Procs :
            (loc[p].pc \in {"record", "commit"} /\ loc[p].site = "result"
             /\ loc[p].msg = "already exists")
            => /\ \A i \in 1..Len(loc[p].ops) : loc[p].ops[i] # "insert"
               /\ loc[p].pendingRow = <<>>
               /\ \A lk \in locks : lk.p # p
               /\ existing(p) # {}
               /\ loc[p].pc = "commit" => loc[p].pendingState[1].rec.status = "skipped")

\* the skipped record of a document whose identifier has a row is about to be
\* committed
C15_Witness ==
    \E p \in Procs :
        /\ loc[p].pc = "commit" /\ loc[p].site = "result"
        /\ loc[p].msg = "already exists"
        /\ loc[p].pendingState[1].rec.status = "skipped"
        /\ existing(p) # {}
        /\ loc[p].ops = <<"get", "marker", "schemaid", "allow", "schema", "validate",
                          "table_exists", "get_columns", "select", "commit">>

\* C16: the step after the fetch of a document whose FileTypeIdentifier is
\* absent or is not the marker leads to the record 'invalid FileTypeIdentifier'
\* with status skipped, and for that document nothing but the GET and the test
\* of the marker took place: no SchemaID extraction, no allow-list check, no
\* validation, no read or write of a target table.
C16_WrongMarkerSkipped ==
    /\ [][\A p \in Procs :
            (/\ loc[p].pc = "typecheck"
             /\ dictGet(Doc(loc[p].data).fields, T_FileTypeIdentifier)
                    # VStr(FILE_TYPE_IDENTIFIER)
             /\ loc'[p] # loc[p] /\ loc'[p].pc # "crashed")
            => /\ loc'[p].pc = "record" /\ loc'[p].site = "type"
               /\ loc'[p].status = "skipped"
               /\ loc'[p].msg = "invalid FileTypeIdentifier"
               /\ tables' = tables /\ locks' = locks]_vars
    /\ [](\A p \in Procs :
            (loc[p].pc \in {"record", "commit"} /\ loc[p].site = "type")
            => /\ loc[p].ops = <<"get", "marker">>
               /\ loc[p].pendingRow = <<>>
               /\ loc[p].pc = "commit" => loc[p].pendingState[1].rec.status = "skipped")

\* the checks a document passes before its row is written
PassesChecks(doc, table) ==
    /\ Doc(doc).body = "object"
    /\ dictGet(Doc(doc).fields, T_FileTypeIdentifier) = VStr(FILE_TYPE_IDENTIFIER)
    /\ get_schema_id(Doc(doc).fields) = VStr(table)
    /\ table \in SchemaFiles
    /\ Doc(doc).valid

\* C17: the INSERT of a document comes after, in this order, its GET, the test
\* of the marker, the extraction of the SchemaID, the allow-list check, the
\* lookup of the schema file and the validation, all passed; every row of a
\* target table comes from such a document; and a document whose schema file is
\* missing or whose validation fails leaves process_file with a skip before any
\* table is touched and is recorded skipped.
C17_InsertAfterChecks ==
    /\ [](\A p \in Procs :
            (loc[p].pc \in {"pf_insert", "pf_commit"} \/ loc[p].pendingRow # <<>>)
            => /\ Len(loc[p].ops) >= 6
               /\ SubSeq(loc[p].ops, 1, 6) =
                    <<"get", "marker", "schemaid", "allow", "schema", "validate">>
               /\ PassesChecks(loc[p].data, loc[p].schema_id.s)
               /\ ~loc[p].allowed_schemaids.on
                  \/ loc[p].schema_id.s \in loc[p].allowed_schemaids.ids)
    /\ [](\A t \in TableNames : \A i \in 1..Len(tables[t]) :
            PassesChecks(tables[t][i].src.doc, t))
    /\ [][\A p \in Procs :
            (/\ loc[p].pc = "pf_checks"
             /\ ~loc[p].allowed_schemaids.on
                \/ loc[p].schema_id.s \in loc[p].allowed_schemaids.ids
             /\ loc[p].schema_id.s \notin SchemaFiles \/ ~Doc(loc[p].data).valid
             /\ loc'[p] # loc[p] /\ loc'[p].pc # "crashed")
            => /\ loc'[p].pc = "record" /\ loc'[p].site = "result" /\ ~loc'[p].ok
               /\ loc'[p].msg = IF loc[p].schema_id.s \notin SchemaFiles
                                THEN "schema file not found"
                                ELSE "schema validation failed"
               /\ tables' = tables /\ locks' = locks]_vars
    /\ [](\A p \in Procs :
            (/\ loc[p].pc \in {"record", "commit"} /\ loc[p].site = "result"
             /\ loc[p].msg \in {"schema file not found", "schema validation failed"})
            => /\ \A i \in 1..Len(loc[p].ops) :
                    loc[p].ops[i] \notin {"table_exists", "get_columns", "select", "insert"}
               /\ loc[p].pendingRow = <<>>
               /\ loc[p].pc = "commit" => loc[p].pendingState[1].rec.status = "skipped")

\* a row was inserted after the checks, and a document that fails validation is
\* about to be recorded skipped
C17_Witness ==
    /\ \E t \in TableNames : tables[t] # <<>>
    /\ \E p \in Procs :
         /\ loc[p].pc = "commit" /\ loc[p].site = "result"
         /\ loc[p].msg = "schema validation failed"
         /\ ~Doc(loc[p].data).valid
         /\ loc[p].pendingState[1].rec.status = "skipped"

(***************************************************************************)
(* Properties of the transactions                                          *)
(***************************************************************************)
\* the positions of the loop before process_file has issued a statement
BeforeStatements == {"item", "get", "typecheck", "route", "pf_checks", "pf_select"}

rowLockOn(p) ==
    {lk \in locks : lk.p = p /\ lk.kind = "row" /\ lk.table = loc[p].schema_id.s
                    /\ lk.id = loc[p].identifier.s}

\* C19: from the existence check until the commit that ends process_file the
\* ingester holds the row lock of the identifier it checked, on the way to the
\* duplicate skip and on the way to the insert, and it begins a document
\* holding no lock.
C19_RowLockHeldUntilCommit ==
    /\ \A p \in Procs :
         loc[p].pc \in {"pf_dup_commit", "pf_insert", "pf_commit"} => rowLockOn(p) # {}
    /\ \A p \in Procs :
         loc[p].pc \in BeforeStatements => \A lk \in locks : lk.p # p

\* C20: the identifier-column value of every inserted row is the identifier its
\* document was checked by and recorded with (get_identifier of the document and
\* the stem of its path), and no two rows of a table inserted by the remote
\* ingester carry the same identifier-column value.
C20_RowCarriesCheckedIdentifier ==
    \A t \in TableNames :
        /\ \A i \in 1..Len(tables[t]) :
              tables[t][i].src.by \in Procs
              => tables[t][i].vals[idColumn(t)] =
                   get_identifier(Doc(tables[t][i].src.doc).fields,
                                  stem(tables[t][i].src.href))
        /\ \A i, j \in 1..Len(tables[t]) :
              (/\ tables[t][i].src.by \in Procs /\ tables[t][j].src.by \in Procs
               /\ tables[t][i].vals[idColumn(t)] = tables[t][j].vals[idColumn(t)])
              => i = j

(***************************************************************************)
(* Properties of a document whose change token changes                     *)
(***************************************************************************)
\* C21: when process_file has returned for a document that the loaded state
\* records as ok with another change token and with the same SchemaID and
\* identifier, and the row of that earlier ingestion is in the table, the
\* result is the skip 'already exists', the record about to be written has
\* status skipped, and the table holds no second row of the document.
C21_ChangedTokenSkipped ==
    \A p \in Procs :
        (loc[p].pc = "commit" /\ loc[p].site = "result")
        => LET l    == loc[p]
               e    == item(p)
               prev == prevOf(l, e.href)
               t    == l.schema_id.s
           IN  (/\ prev.status = "ok"
                /\ <<prev.etag, prev.last_modified>> # <<e.etag, e.last_modified>>
                /\ prev.schema_id = l.schema_id /\ prev.identifier = l.identifier
                /\ t \in TableNames
                /\ \E i \in 1..Len(tables[t]) :
                      /\ tables[t][i].src.href = e.href
                      /\ tables[t][i].src.etag = prev.etag
                      /\ tables[t][i].src.last_modified = prev.last_modified)
               => /\ l.msg = "already exists"
                  /\ l.pendingState[1].rec.status = "skipped"
                  /\ Cardinality({i \in 1..Len(tables[t]) :
                                     tables[t][i].src.href = e.href}) = 1

(***************************************************************************)
(* Properties of the reconciliation                                        *)
(***************************************************************************)
\* C22: a step of the reconciliation removes no row whose table and identifier
\* are those of a path of the current scan's snapshot.
C22_SharedRowKept ==
    [][fsloc.pc = "fs_reconcile"
       => \A e \in fsloc.current_state :
             e.table \in TableNames
             => Cardinality(rowsOf(tables', e.table, e.identifier))
                  = Cardinality(rowsOf(tables, e.table, e.identifier))]_vars

\* C23: the reconciliation deletes no row for a path at which a file exists,
\* and the snapshot written at the end of a scan keeps the entry of every path
\* of the previous snapshot at which a file exists, also when that file does
\* not parse as JSON or has no SchemaID.
C23_PresentFileKept ==
    /\ [][(/\ fsloc.pc = "fs_reconcile" /\ fsloc.missing # <<>>
           /\ disk[Head(fsloc.missing)] # "absent")
          => tables' = tables]_vars
    /\ [][fsloc.pc = "fs_write"
          => \A e \in fsloc.prev_state :
                disk[e.path] # "absent" => e.path \in pathsOf(state_file'.entries)]_vars

====
